---------------------------- MODULE Spec2Model ----------------------------
(***************************************************************************)
(* Sudoku: the puzzle engine (Gameboard: constraint check, backtracking    *)
(* solver, generator) and the edit session (GameboardController).          *)
(*                                                                         *)
(* A grid is cells[row][col] with row, col in 0..8 and values 0..9, as in  *)
(* the source; a position of the session is <<x, y>> = (column, row).      *)
(* An Option is a set with at most one element: {} is None, {v} Some(v).   *)
(***************************************************************************)
EXTENDS Integers, Sequences, FiniteSets, TLC

\* pub const SIZE: usize = 9
SIZE == 9

\* pub const DEFAULT_HOLES: usize = 40
DEFAULT_HOLES == 40

\* history.len() >= 100 in push_history
HistoryCap == 100

\* changes.len() >= 200 in push_change
ChangesCap == 200

Idx == 0 .. (SIZE - 1)

Digit == 1 .. 9

\* the cells (row, col) of a grid
Cells == {<<r, c>> : r \in Idx, c \in Idx}

\* Gameboard::new(): the all-empty grid
new == [r \in Idx |-> [c \in Idx |-> 0]]

\* Gameboard::from_cells(cells)
from_cells(cells) == cells

\* Gameboard::set(ind, val): ind is [x, y]
set(cells, ind, val) == [cells EXCEPT ![ind[2]][ind[1]] = val]

\* row / 3 * 3
BoxStart(i) == (i \div 3) * 3

\* is_valid_move without the `i != col`, `i != row` and `!(r == row &&
\* c == col)` of lines 40, 43 and 51, so that the cell is compared with
\* itself: the variant C6_ValidMove has to reject.
is_valid_move_self(cells, row, col, num) ==
    /\ \A i \in Idx :
          /\ cells[row][i] # num
          /\ cells[i][col] # num
    /\ \A r \in BoxStart(row) .. (BoxStart(row) + 2) :
          \A c \in BoxStart(col) .. (BoxStart(col) + 2) :
             cells[r][c] # num

\* Gameboard::is_valid_move(row, col, num)
is_valid_move(cells, row, col, num) ==
    /\ \A i \in Idx :
          /\ ~(i # col /\ cells[row][i] = num)
          /\ ~(i # row /\ cells[i][col] = num)
    /\ \A r \in BoxStart(row) .. (BoxStart(row) + 2) :
          \A c \in BoxStart(col) .. (BoxStart(col) + 2) :
             ~(~(r = row /\ c = col) /\ cells[r][c] = num)

\* The least element of a non-empty set of naturals.
Min(S) == CHOOSE n \in S : \A m \in S : n <= m

\* The row-major scan `for row in 0..SIZE { for col in 0..SIZE { if == 0`:
\* the index row*SIZE+col of the first empty cell, or SIZE*SIZE if none.
FirstEmpty(cells) ==
    LET E == {i \in 0 .. (SIZE * SIZE - 1) : cells[i \div SIZE][i % SIZE] = 0}
    IN IF E = {} THEN SIZE * SIZE ELSE Min(E)

\* The next candidate of `for num in 1..=9` at or after num that passes
\* `if self.is_valid_move(row, col, num)`, or 10 when the loop runs out.
NextValid(cells, row, col, num) ==
    LET V == {n \in num .. 9 : is_valid_move(cells, row, col, n)}
    IN IF V = {} THEN 10 ELSE Min(V)

(***************************************************************************)
(* The recursion of solve() and fill_board() is run on an explicit call    *)
(* stack, one frame per active call that has found its empty cell: the     *)
(* cell and the candidate it has written there (0: none yet).              *)
(*   mode "call": a call is entered and scans for the first empty cell;    *)
(*   mode "loop": the top call goes on to its next candidate;              *)
(*   mode "retF": the call made by the top frame has returned false;       *)
(*   mode "done": the outermost call has returned ok.                      *)
(* A return of true passes through every caller (`if self.solve() {        *)
(* return true; }`), so it ends the run at once.                           *)
(***************************************************************************)
Top(stack) == stack[Len(stack)]

Pop(stack) == SubSeq(stack, 1, Len(stack) - 1)

\* solve returning false as soon as a recursive call fails, without the
\* `self.cells[row][col] = 0` of line 69 and the candidates after it: the
\* variant C5_SolverComplete has to reject.
SolveStepFirst(st) ==
    IF st.mode = "call"
    THEN LET i == FirstEmpty(st.cells) IN
         IF i = SIZE * SIZE
         THEN [mode |-> "done", ok |-> TRUE, cells |-> st.cells, stack |-> <<>>]
         ELSE [mode |-> "loop", ok |-> FALSE, cells |-> st.cells,
               stack |-> Append(st.stack, <<i \div SIZE, i % SIZE, 0>>)]
    ELSE IF st.mode = "loop"
    THEN LET f == Top(st.stack)
             v == NextValid(st.cells, f[1], f[2], f[3] + 1)
         IN IF v > 9
            THEN IF Len(st.stack) = 1
                 THEN [mode |-> "done", ok |-> FALSE, cells |-> st.cells,
                       stack |-> <<>>]
                 ELSE [mode |-> "retF", ok |-> FALSE, cells |-> st.cells,
                       stack |-> Pop(st.stack)]
            ELSE [mode |-> "call", ok |-> FALSE,
                  cells |-> [st.cells EXCEPT ![f[1]][f[2]] = v],
                  stack |-> Append(Pop(st.stack), <<f[1], f[2], v>>)]
    ELSE IF st.mode = "retF"
    THEN IF Len(st.stack) = 1
         THEN [mode |-> "done", ok |-> FALSE, cells |-> st.cells,
               stack |-> <<>>]
         ELSE [mode |-> "retF", ok |-> FALSE, cells |-> st.cells,
               stack |-> Pop(st.stack)]
    ELSE st

\* solve without the `self.cells[row][col] = 0` of line 69 after a failed
\* recursive call, the next candidates being tried over the digit left in
\* the cell: the variant C26_FailedSolve has to reject.
SolveStepKeep(st) ==
    IF st.mode = "call"
    THEN LET i == FirstEmpty(st.cells) IN
         IF i = SIZE * SIZE
         THEN [mode |-> "done", ok |-> TRUE, cells |-> st.cells, stack |-> <<>>]
         ELSE [mode |-> "loop", ok |-> FALSE, cells |-> st.cells,
               stack |-> Append(st.stack, <<i \div SIZE, i % SIZE, 0>>)]
    ELSE IF st.mode = "loop"
    THEN LET f == Top(st.stack)
             v == NextValid(st.cells, f[1], f[2], f[3] + 1)
         IN IF v > 9
            THEN IF Len(st.stack) = 1
                 THEN [mode |-> "done", ok |-> FALSE, cells |-> st.cells,
                       stack |-> <<>>]
                 ELSE [mode |-> "retF", ok |-> FALSE, cells |-> st.cells,
                       stack |-> Pop(st.stack)]
            ELSE [mode |-> "call", ok |-> FALSE,
                  cells |-> [st.cells EXCEPT ![f[1]][f[2]] = v],
                  stack |-> Append(Pop(st.stack), <<f[1], f[2], v>>)]
    ELSE IF st.mode = "retF"
    THEN [mode |-> "loop", ok |-> FALSE, cells |-> st.cells,
          stack |-> st.stack]
    ELSE st

\* One step of Gameboard::solve.
SolveStep(st) ==
    IF st.mode = "call"
    THEN LET i == FirstEmpty(st.cells) IN
         IF i = SIZE * SIZE
         THEN \* `true` at the end of the scan
              [mode |-> "done", ok |-> TRUE, cells |-> st.cells, stack |-> <<>>]
         ELSE \* `if self.cells[row][col] == 0 { for num in 1..=9`
              [mode |-> "loop", ok |-> FALSE, cells |-> st.cells,
               stack |-> Append(st.stack, <<i \div SIZE, i % SIZE, 0>>)]
    ELSE IF st.mode = "loop"
    THEN LET f == Top(st.stack)
             v == NextValid(st.cells, f[1], f[2], f[3] + 1)
         IN IF v > 9
            THEN \* `return false` after the loop
                 IF Len(st.stack) = 1
                 THEN [mode |-> "done", ok |-> FALSE, cells |-> st.cells,
                       stack |-> <<>>]
                 ELSE [mode |-> "retF", ok |-> FALSE, cells |-> st.cells,
                       stack |-> Pop(st.stack)]
            ELSE \* `self.cells[row][col] = num; if self.solve()`
                 [mode |-> "call", ok |-> FALSE,
                  cells |-> [st.cells EXCEPT ![f[1]][f[2]] = v],
                  stack |-> Append(Pop(st.stack), <<f[1], f[2], v>>)]
    ELSE IF st.mode = "retF"
    THEN \* `self.cells[row][col] = 0;`
         [mode |-> "loop", ok |-> FALSE,
          cells |-> [st.cells EXCEPT ![Top(st.stack)[1]][Top(st.stack)[2]] = 0],
          stack |-> st.stack]
    ELSE st

\* At most n steps of SolveStep from st, stopping when the run is done.
RECURSIVE SolveIter(_, _)
SolveIter(st, n) ==
    IF st.mode = "done" \/ n = 0 THEN st
    ELSE IF n = 1 THEN SolveStep(st)
    ELSE SolveIter(SolveIter(st, n \div 2), n - (n \div 2))

\* The steps a run of solve or fill_board is followed for.
Fuel == 1048576

\* Gameboard::solve(&mut self) -> bool: the return value and the grid left
\* behind.  A run that outlasts Fuel has no return value.
solve(cells) ==
    LET st == SolveIter([mode |-> "call", ok |-> FALSE, cells |-> cells,
                         stack |-> <<>>], Fuel)
    IN [ok |-> IF st.mode = "done" THEN st.ok ELSE "running", cells |-> st.cells]

\* is_valid_static without the box loop of lines 128-134: the variant
\* C7_FullSolution has to reject.
is_valid_static_lines(board, row, col, num) ==
    \A i \in Idx : ~(board[row][i] = num \/ board[i][col] = num)

\* Gameboard::is_valid_static(board, row, col, num)
is_valid_static(board, row, col, num) ==
    /\ \A i \in Idx : ~(board[row][i] = num \/ board[i][col] = num)
    /\ \A r \in BoxStart(row) .. (BoxStart(row) + 2) :
          \A c \in BoxStart(col) .. (BoxStart(col) + 2) :
             board[r][c] # num

(***************************************************************************)
(* thread_rng(): the random source.  A run of the generator draws a        *)
(* sequence of shuffles; the model explores the sequences named by a seed: *)
(* the n-th shuffle of 1..9 drawn under seed s is ShuffleNums(s, n), and   *)
(* the shuffle of the 81 positions is ShufflePositions(s).                 *)
(***************************************************************************)
MaxSeed == 3

Seeds == 0 .. MaxSeed

\* nums.shuffle(&mut rng): a permutation of 1..9
ShuffleNums(s, n) ==
    LET k == ((s + 4) + (s + 5) * n) % 9 IN
    IF s % 2 = 0 THEN [i \in 1 .. 9 |-> ((i - 1 + k) % 9) + 1]
    ELSE [i \in 1 .. 9 |-> 9 - ((i - 1 + k) % 9)]

\* (0..SIZE).flat_map(|r| (0..SIZE).map(move |c| (r, c))).collect()
AllPositions ==
    [i \in 1 .. SIZE * SIZE |-> <<(i - 1) \div SIZE, (i - 1) % SIZE>>]

Reverse(q) == [i \in 1 .. Len(q) |-> q[Len(q) + 1 - i]]

\* The (r, c) the explored position shuffles bring to the front.
Block == {<<2, 4>>, <<2, 5>>, <<3, 4>>, <<3, 5>>}

\* positions.shuffle(&mut thread_rng()): a permutation of the 81 (r, c)
ShufflePositions(s) ==
    LET base == IF s % 2 = 0 THEN AllPositions ELSE Reverse(AllPositions)
        InBlock(p) == p \in Block
        OffBlock(p) == p \notin Block
    IN SelectSeq(base, InBlock) \o SelectSeq(base, OffBlock)

\* The next index of `for &num in &nums` at or after k whose digit passes
\* `if Self::is_valid_static(board, row, col, num)`, or 10.
NextValidStatic(board, row, col, nums, k) ==
    LET V == {j \in k .. 9 : is_valid_static(board, row, col, nums[j])}
    IN IF V = {} THEN 10 ELSE Min(V)

\* One step of Gameboard::fill_board under seed s; a frame holds the cell,
\* the shuffle of the call and the index in it of the digit written
\* (0: none yet); n counts the shuffles drawn.
FillStep(st, s) ==
    IF st.mode = "call"
    THEN LET i == FirstEmpty(st.board) IN
         IF i = SIZE * SIZE
         THEN [mode |-> "done", ok |-> TRUE, board |-> st.board,
               stack |-> <<>>, n |-> st.n]
         ELSE \* `nums.shuffle(&mut rng); for &num in &nums`
              [mode |-> "loop", ok |-> FALSE, board |-> st.board,
               stack |-> Append(st.stack, <<i \div SIZE, i % SIZE,
                                            ShuffleNums(s, st.n), 0>>),
               n |-> st.n + 1]
    ELSE IF st.mode = "loop"
    THEN LET f == Top(st.stack)
             j == NextValidStatic(st.board, f[1], f[2], f[3], f[4] + 1)
         IN IF j > 9
            THEN IF Len(st.stack) = 1
                 THEN [mode |-> "done", ok |-> FALSE, board |-> st.board,
                       stack |-> <<>>, n |-> st.n]
                 ELSE [mode |-> "retF", ok |-> FALSE, board |-> st.board,
                       stack |-> Pop(st.stack), n |-> st.n]
            ELSE \* `board[row][col] = num; if Self::fill_board(board)`
                 [mode |-> "call", ok |-> FALSE,
                  board |-> [st.board EXCEPT ![f[1]][f[2]] = f[3][j]],
                  stack |-> Append(Pop(st.stack), <<f[1], f[2], f[3], j>>),
                  n |-> st.n]
    ELSE IF st.mode = "retF"
    THEN \* `board[row][col] = 0;`
         [mode |-> "loop", ok |-> FALSE,
          board |-> [st.board EXCEPT ![Top(st.stack)[1]][Top(st.stack)[2]] = 0],
          stack |-> st.stack, n |-> st.n]
    ELSE st

RECURSIVE FillIter(_, _, _)
FillIter(st, s, n) ==
    IF st.mode = "done" \/ n = 0 THEN st
    ELSE IF n = 1 THEN FillStep(st, s)
    ELSE FillIter(FillIter(st, s, n \div 2), s, n - (n \div 2))

\* Gameboard::fill_board(board) -> bool: the return value, the board left
\* behind and the number of shuffles drawn.
fill_board(board, s) ==
    LET st == FillIter([mode |-> "call", ok |-> FALSE, board |-> board,
                        stack |-> <<>>, n |-> 0], s, Fuel)
    IN [ok |-> IF st.mode = "done" THEN st.ok ELSE "running",
        board |-> st.board, n |-> st.n]

\* Gameboard::generate_full_solution()
generate_full_solution(s) == fill_board(new, s).board

\* The full solutions of the explored seeds, computed once.
FullSolution == [s \in Seeds |-> generate_full_solution(s)]

\* Dig refusing a count above the number of positions and digging nothing,
\* in place of the `take(holes)` of line 85, which stops at the last
\* position: the variant C25_ManyHoles has to reject.
RECURSIVE Dig_checked(_, _, _, _)
Dig_checked(board, positions, k, holes) ==
    IF holes > Len(positions) \/ k > holes THEN board
    ELSE Dig_checked([board EXCEPT ![positions[k][1]][positions[k][2]] = 0],
                     positions, k + 1, holes)

\* `for (r, c) in positions.into_iter().take(holes) { board.cells[r][c] = 0 }`
RECURSIVE Dig(_, _, _, _)
Dig(board, positions, k, holes) ==
    IF k > holes \/ k > Len(positions) THEN board
    ELSE Dig([board EXCEPT ![positions[k][1]][positions[k][2]] = 0],
             positions, k + 1, holes)

\* generate_random taking one position too many, `take(holes + 1)` at line
\* 85: the variant C8_GenerateRandom has to reject.
generate_random_more(holes, s) ==
    Dig(FullSolution[s], ShufflePositions(s), 1, holes + 1)

\* Gameboard::generate_random(holes)
generate_random(holes, s) ==
    Dig(FullSolution[s], ShufflePositions(s), 1, holes)

(***************************************************************************)
(* The edit session: struct GameboardController.  cursor_pos and           *)
(* mouse_pressed only serve hit-testing and button drawing; the decoded    *)
(* input (which button, which cell, which key) is the parameter of the     *)
(* actions below.                                                          *)
(***************************************************************************)
VARIABLES
    gameboard,      \* gameboard.cells, the working grid
    selected_cell,  \* Option<[x, y]>
    initial_cells,  \* the puzzle as issued
    invalid_cells,  \* Vec<[x, y]>
    history,        \* Vec of full-grid snapshots
    changes,        \* Vec<Change>
    hint,           \* Option<([x, y], value)>
    show_all,
    solved_cache,   \* Option<grid>
    submitted,
    cmd             \* the command event() dispatched last

session == <<gameboard, selected_cell, initial_cells, invalid_cells, history,
             changes, hint, show_all, solved_cache, submitted>>

\* (x, y) in the order of `for y in 0..9 { for x in 0..9`
ScanXY == [i \in 1 .. SIZE * SIZE |-> <<(i - 1) % SIZE, (i - 1) \div SIZE>>]

\* has_user_input reporting input on every grid, so that reset never takes
\* its early return for an untouched grid (line 329): the variant C13_Reset
\* has to reject.
has_user_input_any(cells, init) ==
    \E y \in Idx : \E x \in Idx : cells[y][x] = cells[y][x]

\* GameboardController::has_user_input
has_user_input(cells, init) ==
    \E y \in Idx : \E x \in Idx : cells[y][x] # init[y][x]

\* push_history without the `if self.history.len() >= 100 { remove(0) }` of
\* lines 265-267: the variant C21_BoundedStacks has to reject.
push_history_unbounded(hist, cells) ==
    Append(hist, cells)

\* GameboardController::push_history
push_history(hist, cells) ==
    Append(IF Len(hist) >= HistoryCap THEN Tail(hist) ELSE hist, cells)

\* push_change with column and row exchanged in the Change it records
\* (line 277): the variant C20_ChangesLog has to reject.
push_change_swapped(chg, x, y, prev) ==
    Append(IF Len(chg) >= ChangesCap THEN Tail(chg) ELSE chg,
           [x |-> y, y |-> x, prev |-> prev])

\* GameboardController::push_change
push_change(chg, x, y, prev) ==
    Append(IF Len(chg) >= ChangesCap THEN Tail(chg) ELSE chg,
           [x |-> x, y |-> y, prev |-> prev])

\* self.invalid_cells.retain(|&p| p != ind)
Retain(inv, ind) ==
    LET Keep(p) == p # ind IN SelectSeq(inv, Keep)

\* self.invalid_cells.contains(&ind)
Contains(inv, ind) == \E i \in 1 .. Len(inv) : inv[i] = ind

\* GameboardController::recompute_invalid_cells
recompute_invalid_cells(cells, init) ==
    LET Bad(p) == /\ init[p[2]][p[1]] = 0
                  /\ cells[p[2]][p[1]] # 0
                  /\ ~is_valid_move(cells, p[2], p[1], cells[p[2]][p[1]])
    IN SelectSeq(ScanXY, Bad)

\* recompute_solution_cache solving the working grid instead of the copy
\* of initial_cells made at line 302: the variant C16_ShowAll has to
\* reject.
recompute_solution_cache_working(show, init) ==
    IF ~show THEN {}
    ELSE LET clone == solve(from_cells(gameboard)) IN
         IF clone.ok THEN {clone.cells} ELSE {}

\* GameboardController::recompute_solution_cache: the new solved_cache
recompute_solution_cache(show, init) ==
    IF ~show THEN {}
    ELSE LET clone == solve(from_cells(init)) IN
         IF clone.ok THEN {clone.cells} ELSE {}

\* GameboardController::new(gameboard)
Controller(g) ==
    /\ gameboard = g
    /\ selected_cell = {}
    /\ initial_cells = g
    /\ invalid_cells = <<>>
    /\ history = <<>>
    /\ changes = <<>>
    /\ hint = {}
    /\ show_all = FALSE
    /\ solved_cache = {}
    /\ submitted = FALSE

(***************************************************************************)
(* What the model explores of the input space.                             *)
(***************************************************************************)
\* hole counts passed to generate_random / randomize.  main() and the
\* buttons pass DEFAULT_HOLES; new(gameboard) and randomize(holes) take any
\* board and any count, and the session is followed on puzzles with few
\* holes, one (4 holes under seed 0) with two solutions.
SessionHoles == {2, 4}

\* seeds the session's puzzles are generated under
SessionSeeds == {0}

\* digit keys pressed
KeyDigits == {1, 8}

\* the cells [x, y] the pointer clicks and the keyboard cursor stays in
Window == {<<4, 2>>, <<4, 3>>}

\* entries of history and changes together up to which the commands that
\* log (edits, hint confirmation, reset, randomize) are followed
MaxLog == 2

Logged == Len(history) + Len(changes)

\* The command record: its name, the value of submitted it found and, after
\* an effective enter_digit, the grid and invalid_cells it started from.
Cmd(op) == [op |-> op, sub |-> submitted, pre |-> {}]

\* The record of a digit key: the digit too.
KeyCmd(val, pre) ==
    [op |-> "enter_digit", sub |-> submitted, pre |-> pre, key |-> val]

(***************************************************************************)
(* Left click inside the board, lines 129-159: confirms the pending hint   *)
(* when the click is on the hinted cell, else selects the cell.            *)
(***************************************************************************)
click_cell(cell_x, cell_y) ==
    LET pos == <<cell_x, cell_y>>
        confirm == /\ hint # {}
                   /\ \E h \in hint : h.pos = pos
                   /\ initial_cells[cell_y][cell_x] = 0
                   /\ gameboard[cell_y][cell_x] = 0
    IN
    IF confirm
    THEN \E h \in hint :
           LET val == h.val
               cells == set(gameboard, pos, val)
               kept == Retain(invalid_cells, pos)
           IN /\ Logged < MaxLog
              /\ changes' = push_change(changes, cell_x, cell_y, 0)
              /\ gameboard' = cells
              /\ hint' = {}
              /\ solved_cache' = IF show_all
                                 THEN recompute_solution_cache(show_all, initial_cells)
                                 ELSE solved_cache
              /\ invalid_cells' = IF ~is_valid_move(cells, cell_y, cell_x, val)
                                  THEN Append(kept, pos)
                                  ELSE kept
              /\ cmd' = Cmd("confirm_hint")
              /\ UNCHANGED <<selected_cell, initial_cells, history, show_all,
                             submitted>>
    ELSE /\ selected_cell' = {pos}
         /\ cmd' = Cmd("select")
         /\ UNCHANGED <<gameboard, initial_cells, invalid_cells, history,
                        changes, hint, show_all, solved_cache, submitted>>

Max2(a, b) == IF a >= b THEN a ELSE b

Min2(a, b) == IF a <= b THEN a ELSE b

\* Key::Up / Down / Left / Right, lines 169-194
Moved(ind, key) ==
    IF key = "Up" THEN <<ind[1], Max2(ind[2] - 1, 0)>>
    ELSE IF key = "Down" THEN <<ind[1], Min2(ind[2] + 1, 8)>>
    ELSE IF key = "Left" THEN <<Max2(ind[1] - 1, 0), ind[2]>>
    ELSE <<Min2(ind[1] + 1, 8), ind[2]>>

key_move(key) ==
    /\ \/ /\ selected_cell = {}
          /\ UNCHANGED selected_cell
       \/ \E ind \in selected_cell :
            /\ Moved(ind, key) \in Window
            /\ selected_cell' = {Moved(ind, key)}
    /\ cmd' = Cmd("move")
    /\ UNCHANGED <<gameboard, initial_cells, invalid_cells, history, changes,
                   hint, show_all, solved_cache, submitted>>

\* enter_digit without the `if self.gameboard.cells[y][x] != val` of line
\* 228, logging and writing a digit the cell already holds: the variant
\* C14_EditNoEffect has to reject.
enter_digit_same(val) ==
    LET locked == \/ selected_cell = {}
                  \/ \E ind \in selected_cell :
                        \/ initial_cells[ind[2]][ind[1]] # 0
                        \/ submitted
    IN
    IF locked
    THEN /\ cmd' = KeyCmd(val, {})
         /\ UNCHANGED session
    ELSE \E ind \in selected_cell :
           LET x == ind[1]
               y == ind[2]
               prev == gameboard[y][x]
               cells == set(gameboard, <<x, y>>, val)
           IN /\ Logged < MaxLog
              /\ changes' = push_change(changes, x, y, prev)
              /\ gameboard' = cells
              /\ solved_cache' = IF show_all
                                 THEN recompute_solution_cache(show_all, initial_cells)
                                 ELSE solved_cache
              /\ invalid_cells' =
                    IF is_valid_move(cells, y, x, val)
                    THEN Retain(invalid_cells, ind)
                    ELSE IF ~Contains(invalid_cells, ind)
                         THEN Append(invalid_cells, ind)
                         ELSE invalid_cells
              /\ cmd' = KeyCmd(val, {[cells |-> gameboard,
                                       invalid |-> invalid_cells]})
              /\ UNCHANGED <<selected_cell, initial_cells, history, hint,
                             show_all, submitted>>

\* Key::D1 .. Key::D9, lines 196-244
enter_digit(val) ==
    LET locked == \/ selected_cell = {}
                  \/ \E ind \in selected_cell :
                        \/ initial_cells[ind[2]][ind[1]] # 0
                        \/ submitted
                        \/ gameboard[ind[2]][ind[1]] = val
    IN
    IF locked
    THEN /\ cmd' = KeyCmd(val, {})
         /\ UNCHANGED session
    ELSE \E ind \in selected_cell :
           LET x == ind[1]
               y == ind[2]
               prev == gameboard[y][x]
               cells == set(gameboard, <<x, y>>, val)
           IN /\ Logged < MaxLog
              /\ changes' = push_change(changes, x, y, prev)
              /\ gameboard' = cells
              /\ solved_cache' = IF show_all
                                 THEN recompute_solution_cache(show_all, initial_cells)
                                 ELSE solved_cache
              /\ invalid_cells' =
                    IF is_valid_move(cells, y, x, val)
                    THEN Retain(invalid_cells, ind)
                    ELSE IF ~Contains(invalid_cells, ind)
                         THEN Append(invalid_cells, ind)
                         ELSE invalid_cells
              /\ cmd' = KeyCmd(val, {[cells |-> gameboard,
                                       invalid |-> invalid_cells]})
              /\ UNCHANGED <<selected_cell, initial_cells, history, hint,
                             show_all, submitted>>

\* Key::Backspace | Key::Delete, lines 196-203 and 245-256
clear_cell ==
    LET locked == \/ selected_cell = {}
                  \/ \E ind \in selected_cell :
                        \/ initial_cells[ind[2]][ind[1]] # 0
                        \/ submitted
                        \/ gameboard[ind[2]][ind[1]] = 0
    IN
    IF locked
    THEN /\ cmd' = Cmd("clear_cell")
         /\ UNCHANGED session
    ELSE \E ind \in selected_cell :
           LET x == ind[1]
               y == ind[2]
               prev == gameboard[y][x]
           IN /\ Logged < MaxLog
              /\ changes' = push_change(changes, x, y, prev)
              /\ gameboard' = set(gameboard, <<x, y>>, 0)
              /\ invalid_cells' = Retain(invalid_cells, ind)
              /\ solved_cache' = IF show_all
                                 THEN recompute_solution_cache(show_all, initial_cells)
                                 ELSE solved_cache
              /\ cmd' = Cmd("clear_cell")
              /\ UNCHANGED <<selected_cell, initial_cells, history, hint,
                             show_all, submitted>>

(***************************************************************************)
(* undo(): called at gameboard_controller.rs:106 and main.rs:63; its body  *)
(* is not in the sources, only its doc comment (lines 321-323).  Modelled  *)
(* from the specification: no-op if submitted; pops the most recent        *)
(* snapshot from history (if any), replaces the working grid wholesale,    *)
(* then fully recomputes invalid_cells.                                    *)
(***************************************************************************)
undo ==
    /\ IF submitted \/ history = <<>>
       THEN UNCHANGED session
       ELSE /\ gameboard' = history[Len(history)]
            /\ history' = SubSeq(history, 1, Len(history) - 1)
            /\ invalid_cells' =
                  recompute_invalid_cells(history[Len(history)], initial_cells)
            /\ UNCHANGED <<selected_cell, initial_cells, changes, hint,
                           show_all, solved_cache, submitted>>
    /\ cmd' = Cmd("undo")

\* reset with the `|| self.submitted` of line 329 left out: the variant
\* C1_TerminalLock has to reject.
reset_unlocked ==
    /\ IF ~has_user_input(gameboard, initial_cells)
       THEN UNCHANGED session
       ELSE /\ Logged < MaxLog
            /\ history' = push_history(history, gameboard)
            /\ gameboard' = initial_cells
            /\ invalid_cells' = <<>>
            /\ hint' = {}
            /\ show_all' = FALSE
            /\ solved_cache' = {}
            /\ UNCHANGED <<selected_cell, initial_cells, changes, submitted>>
    /\ cmd' = Cmd("reset")

\* GameboardController::reset
reset ==
    /\ IF ~has_user_input(gameboard, initial_cells) \/ submitted
       THEN UNCHANGED session
       ELSE /\ Logged < MaxLog
            /\ history' = push_history(history, gameboard)
            /\ gameboard' = initial_cells
            /\ invalid_cells' = <<>>
            /\ hint' = {}
            /\ show_all' = FALSE
            /\ solved_cache' = {}
            /\ UNCHANGED <<selected_cell, initial_cells, changes, submitted>>
    /\ cmd' = Cmd("reset")

\* randomize with the `self.submitted = false` of line 349 left out: the
\* variant C10_Randomize has to reject.
randomize_locked(holes, s) ==
    /\ Logged < MaxLog
    /\ history' = push_history(history, gameboard)
    /\ gameboard' = generate_random(holes, s)
    /\ initial_cells' = generate_random(holes, s)
    /\ invalid_cells' = <<>>
    /\ hint' = {}
    /\ show_all' = FALSE
    /\ solved_cache' = {}
    /\ cmd' = Cmd("randomize")
    /\ UNCHANGED <<selected_cell, changes, submitted>>

\* randomize without the `self.solved_cache = None` of line 348: the
\* variant C18_CacheInStep has to reject.
randomize_cached(holes, s) ==
    /\ Logged < MaxLog
    /\ history' = push_history(history, gameboard)
    /\ gameboard' = generate_random(holes, s)
    /\ initial_cells' = generate_random(holes, s)
    /\ invalid_cells' = <<>>
    /\ hint' = {}
    /\ show_all' = FALSE
    /\ submitted' = FALSE
    /\ cmd' = Cmd("randomize")
    /\ UNCHANGED <<selected_cell, changes, solved_cache>>

\* GameboardController::randomize(holes), the generator drawing under seed s
randomize(holes, s) ==
    /\ Logged < MaxLog
    /\ history' = push_history(history, gameboard)
    /\ gameboard' = generate_random(holes, s)
    /\ initial_cells' = generate_random(holes, s)
    /\ invalid_cells' = <<>>
    /\ hint' = {}
    /\ show_all' = FALSE
    /\ solved_cache' = {}
    /\ submitted' = FALSE
    /\ cmd' = Cmd("randomize")
    /\ UNCHANGED <<selected_cell, changes>>

\* usize::MAX as the start of best_count: above every candidate count
CountTop == 10

\* `for num in 1..=9u8 { if is_valid_move(y, x, num) { cnt += 1 } }`
Cnt(cells, y, x) ==
    Cardinality({num \in 1 .. 9 : is_valid_move(cells, y, x, num)})

\* HintCol with `cnt <= best_count` in place of the `cnt < best_count` of
\* line 381, so that a later cell with the same count replaces an earlier
\* one: the variant C22_Hint has to reject.
RECURSIVE HintCol_last(_, _, _, _, _)
HintCol_last(cells, init, y, x, best) ==
    IF x > 8 THEN best
    ELSE IF init[y][x] # 0 \/ cells[y][x] # 0
         THEN HintCol_last(cells, init, y, x + 1, best)
    ELSE IF Cnt(cells, y, x) > 0 /\ Cnt(cells, y, x) <= best.count
         THEN IF Cnt(cells, y, x) = 1
              THEN [pos |-> {<<x, y>>}, count |-> 1]
              ELSE HintCol_last(cells, init, y, x + 1,
                                [pos |-> {<<x, y>>}, count |-> Cnt(cells, y, x)])
    ELSE HintCol_last(cells, init, y, x + 1, best)

\* show_hint, lines 365-392: the scan for the cell with the fewest
\* candidates.  HintCol is `for x in 0..9` in row y from column x on,
\* HintRow `for y in 0..9` from row y on; both stop once best.count = 1.
RECURSIVE HintCol(_, _, _, _, _)
HintCol(cells, init, y, x, best) ==
    IF x > 8 THEN best
    ELSE IF init[y][x] # 0 \/ cells[y][x] # 0
         THEN HintCol(cells, init, y, x + 1, best)
    ELSE IF Cnt(cells, y, x) > 0 /\ Cnt(cells, y, x) < best.count
         THEN IF Cnt(cells, y, x) = 1
              THEN [pos |-> {<<x, y>>}, count |-> 1]
              ELSE HintCol(cells, init, y, x + 1,
                           [pos |-> {<<x, y>>}, count |-> Cnt(cells, y, x)])
    ELSE HintCol(cells, init, y, x + 1, best)

RECURSIVE HintRow(_, _, _, _)
HintRow(cells, init, y, best) ==
    IF y > 8 THEN best
    ELSE LET b == HintCol(cells, init, y, 0, best) IN
         IF b.count = 1 THEN b ELSE HintRow(cells, init, y + 1, b)

\* show_hint, lines 394-411: the hint for the chosen cell, if any
HintFor(cells, best_pos) ==
    IF best_pos = {} THEN {}
    ELSE LET clone == solve(cells)
             t == CHOOSE q \in best_pos : TRUE
             val == clone.cells[t[2]][t[1]]
         IN IF ~clone.ok THEN {}
            ELSE IF val \in 1 .. 9 THEN {[pos |-> t, val |-> val]}
            ELSE {}

\* GameboardController::show_hint
show_hint ==
    /\ IF submitted
       THEN UNCHANGED session
       ELSE /\ hint' =
                 IF hint # {} THEN {}
                 ELSE HintFor(gameboard,
                              HintRow(gameboard, initial_cells, 0,
                                      [pos |-> {}, count |-> CountTop]).pos)
            /\ UNCHANGED <<gameboard, selected_cell, initial_cells,
                           invalid_cells, history, changes, show_all,
                           solved_cache, submitted>>
    /\ cmd' = Cmd("show_hint")

\* toggle_show_all solving the working grid itself instead of the clone of
\* line 302: the variant C23_PrivateCopies has to reject.
toggle_show_all_inplace ==
    /\ IF show_all
       THEN /\ show_all' = FALSE
            /\ solved_cache' = {}
            /\ UNCHANGED gameboard
       ELSE /\ show_all' = TRUE
            /\ solved_cache' = recompute_solution_cache(TRUE, gameboard)
            /\ gameboard' = IF solve(gameboard).ok
                            THEN solve(gameboard).cells
                            ELSE gameboard
    /\ cmd' = Cmd("toggle_show_all")
    /\ UNCHANGED <<selected_cell, initial_cells, invalid_cells,
                   history, changes, hint, submitted>>

\* GameboardController::toggle_show_all
toggle_show_all ==
    /\ IF show_all
       THEN /\ show_all' = FALSE
            /\ solved_cache' = {}
       ELSE /\ show_all' = TRUE
            /\ solved_cache' = recompute_solution_cache(TRUE, initial_cells)
    /\ cmd' = Cmd("toggle_show_all")
    /\ UNCHANGED <<gameboard, selected_cell, initial_cells, invalid_cells,
                   history, changes, hint, submitted>>

\* Graded with the `if player_val == 0 { continue; }` of lines 436-438 left
\* out, so that empty cells are flagged too: the variant C2_SubmitGrading
\* has to reject.
GradedEmpty(cells, init, solution) ==
    LET Wrong(p) == /\ init[p[2]][p[1]] = 0
                    /\ cells[p[2]][p[1]] # solution[p[2]][p[1]]
    IN SelectSeq(ScanXY, Wrong)

\* submit, lines 429-444: the wrong entries, in scan order
Graded(cells, init, solution) ==
    LET Wrong(p) == /\ init[p[2]][p[1]] = 0
                    /\ cells[p[2]][p[1]] # 0
                    /\ cells[p[2]][p[1]] # solution[p[2]][p[1]]
    IN SelectSeq(ScanXY, Wrong)

\* submit leaving submitted set although solve() failed on the copy of
\* initial_cells, the `return` of line 422 coming after line 425: the
\* variant C12_SubmitNoEffect has to reject.
submit_eager ==
    /\ LET solution == solve(from_cells(initial_cells)) IN
       IF submitted
       THEN UNCHANGED session
       ELSE IF ~solution.ok
       THEN /\ submitted' = TRUE
            /\ UNCHANGED <<gameboard, selected_cell, initial_cells,
                           invalid_cells, history, changes, hint, show_all,
                           solved_cache>>
       ELSE /\ submitted' = TRUE
            /\ hint' = {}
            /\ invalid_cells' = Graded(gameboard, initial_cells, solution.cells)
            /\ UNCHANGED <<gameboard, selected_cell, initial_cells, history,
                           changes, show_all, solved_cache>>
    /\ cmd' = Cmd("submit")

\* submit without the `self.hint = None` of line 427: the variant
\* C27_NoHintOnceSubmitted has to reject.
submit_hinted ==
    /\ LET solution == solve(from_cells(initial_cells)) IN
       IF submitted \/ ~solution.ok
       THEN UNCHANGED session
       ELSE /\ submitted' = TRUE
            /\ invalid_cells' = Graded(gameboard, initial_cells, solution.cells)
            /\ UNCHANGED <<gameboard, selected_cell, initial_cells, history,
                           changes, hint, show_all, solved_cache>>
    /\ cmd' = Cmd("submit")

\* GameboardController::submit
submit ==
    /\ LET solution == solve(from_cells(initial_cells)) IN
       IF submitted \/ ~solution.ok
       THEN UNCHANGED session
       ELSE /\ submitted' = TRUE
            /\ hint' = {}
            /\ invalid_cells' = Graded(gameboard, initial_cells, solution.cells)
            /\ UNCHANGED <<gameboard, selected_cell, initial_cells, history,
                           changes, show_all, solved_cache>>
    /\ cmd' = Cmd("submit")

vars == <<gameboard, selected_cell, initial_cells, invalid_cells, history,
          changes, hint, show_all, solved_cache, submitted, cmd>>

\* main(): GameboardController::new(Gameboard::generate_random(holes))
Init ==
    /\ \E holes \in SessionHoles : \E s \in SessionSeeds :
          Controller(generate_random(holes, s))
    /\ cmd = Cmd("new")

Click == \E p \in Window : click_cell(p[1], p[2])

KeyMove == \E key \in {"Up", "Down", "Left", "Right"} : key_move(key)

EnterDigit == \E val \in KeyDigits : enter_digit(val)

Randomize ==
    \E holes \in SessionHoles : \E s \in SessionSeeds : randomize(holes, s)

Next ==
    \/ Click
    \/ KeyMove
    \/ EnterDigit
    \/ clear_cell
    \/ undo
    \/ reset
    \/ Randomize
    \/ show_hint
    \/ toggle_show_all
    \/ submit

Spec == Init /\ [][Next]_vars

\* The sessions of one puzzle: the event loop without the Reset and
\* Randomize buttons (controller lines 100-107), so that initial_cells and
\* history stay as GameboardController::new left them.
EditNext ==
    \/ Click
    \/ KeyMove
    \/ EnterDigit
    \/ clear_cell
    \/ undo
    \/ show_hint
    \/ toggle_show_all
    \/ submit

EditSpec == Init /\ [][EditNext]_vars

(***************************************************************************)
(* Properties of the edit session, checked under Spec.                     *)
(***************************************************************************)
\* the commands event() and the methods guard with `submitted`
LockedOps == {"enter_digit", "clear_cell", "undo", "reset", "show_hint"}

\* the puzzle state: every session field but the selection and the
\* show-all overlay
puzzle == <<gameboard, initial_cells, invalid_cells, history, changes, hint,
            submitted>>

\* C1 (terminal lock): from a state with submitted = TRUE, each of
\* enter_digit, clear_cell, undo, reset and show_hint leaves every session
\* field unchanged; of the commands, only randomize changes the puzzle state,
\* and it sets submitted back to FALSE.  (Selection and the show-all overlay,
\* which select, move and toggle_show_all write, are the subject of C11.)
C1_TerminalLock ==
    [][submitted =>
          /\ (cmd'.op \in LockedOps => UNCHANGED session)
          /\ (cmd'.op = "randomize" => ~submitted' /\ session' # session)
          /\ (puzzle' # puzzle => cmd'.op = "randomize")]_vars

\* reset arrived in a submitted session whose grid differs from the puzzle
C1_Witness ==
    /\ submitted
    /\ cmd.op = "reset"
    /\ cmd.sub
    /\ has_user_input(gameboard, initial_cells)
    /\ Logged < MaxLog

\* the editable cells [x, y] of cells holding a digit other than the one
\* solve() puts there on a copy of init
WrongEntries(cells, init) ==
    LET solution == solve(from_cells(init)).cells IN
    {p \in Idx \X Idx : /\ init[p[2]][p[1]] = 0
                        /\ cells[p[2]][p[1]] # 0
                        /\ cells[p[2]][p[1]] # solution[p[2]][p[1]]}

\* C2 (submit grading): submit in the Editing state on a solvable
\* initial_cells sets submitted, empties hint and leaves in invalid_cells
\* exactly the editable cells whose digit is non-zero and differs from the
\* solved value, each once; the grids are untouched.
C2_SubmitGrading ==
    [][(/\ ~submitted
        /\ cmd'.op = "submit"
        /\ solve(from_cells(initial_cells)).ok = TRUE) =>
          /\ submitted'
          /\ hint' = {}
          /\ {invalid_cells'[i] : i \in DOMAIN invalid_cells'}
                = WrongEntries(gameboard, initial_cells)
          /\ Len(invalid_cells') = Cardinality(WrongEntries(gameboard, initial_cells))
          /\ UNCHANGED <<gameboard, initial_cells>>]_vars

\* a submit that flagged a wrong digit and passed over an empty editable cell
C2_Witness ==
    /\ cmd.op = "submit"
    /\ ~cmd.sub
    /\ submitted
    /\ invalid_cells # <<>>
    /\ \E p \in Idx \X Idx : /\ initial_cells[p[2]][p[1]] = 0
                             /\ gameboard[p[2]][p[1]] = 0

\* C3 (undo round trip): an undo right after an effective enter_digit in the
\* Editing state restores the working grid and invalid_cells to their values
\* before the enter_digit.
C3_UndoRoundTrip ==
    [][(/\ cmd.op = "enter_digit"
        /\ cmd.pre # {}
        /\ ~submitted
        /\ cmd'.op = "undo") =>
          \A p \in cmd.pre : /\ gameboard' = p.cells
                             /\ invalid_cells' = p.invalid]_vars

\* C9 (fixed cells): every cell that is non-zero in initial_cells holds that
\* value in the working grid.
C9_FixedCells ==
    \A row \in Idx : \A col \in Idx :
        initial_cells[row][col] # 0 =>
            gameboard[row][col] = initial_cells[row][col]

\* C10 (randomize): randomize can be taken in every state, submitted or not;
\* after it the working grid equals initial_cells, a generated puzzle,
\* invalid_cells, hint and solved_cache are empty, show_all and submitted are
\* FALSE and the grid it found is the newest snapshot on history.  No other
\* command takes submitted from TRUE to FALSE.
C10_Randomize ==
    /\ [](Logged < MaxLog => ENABLED Randomize)
    /\ [][/\ cmd'.op = "randomize" =>
                /\ gameboard' = initial_cells'
                /\ \E holes \in SessionHoles : \E s \in SessionSeeds :
                      initial_cells' = generate_random(holes, s)
                /\ invalid_cells' = <<>>
                /\ hint' = {}
                /\ ~show_all'
                /\ solved_cache' = {}
                /\ ~submitted'
                /\ history' # <<>>
                /\ history'[Len(history')] = gameboard
          /\ (submitted /\ ~submitted') => cmd'.op = "randomize"]_vars

\* randomize has left the submitted state
C10_Witness ==
    /\ cmd.op = "randomize"
    /\ cmd.sub
    /\ ~submitted
    /\ history # <<>>

\* C11 (lock of every command): from a state with submitted = TRUE, every
\* command other than randomize, select, move and toggle_show_all included,
\* leaves every session field unchanged.
C11_AllLocked ==
    [][(submitted /\ cmd'.op # "randomize") => UNCHANGED session]_vars

(***************************************************************************)
(* A session on a board handed to GameboardController::new by its caller,  *)
(* which need not be a generated puzzle: here one solve() fails on.        *)
(***************************************************************************)
\* The 2-hole puzzle of seed 0 with the 9 of row 2, column 0 overwritten by
\* 8: the hole at row 2, column 4 is left without a candidate.
Blocked == [generate_random(2, 0) EXCEPT ![2][0] = 8]

BoardInit ==
    /\ Controller(from_cells(Blocked))
    /\ cmd = Cmd("new")

BoardSpec == BoardInit /\ [][Next]_vars

\* C12 (submit without effect): a submit that finds submitted already TRUE,
\* or on whose copy of initial_cells solve() fails, changes no session field:
\* submitted, hint, invalid_cells, initial_cells and the working grid stay as
\* they were.
C12_SubmitNoEffect ==
    [][(/\ cmd'.op = "submit"
        /\ \/ submitted
           \/ solve(from_cells(initial_cells)).ok = FALSE) =>
          UNCHANGED session]_vars

\* submit has come back from a failed solve with a hint pending and a cell
\* flagged
C12_Witness ==
    /\ cmd.op = "submit"
    /\ ~submitted
    /\ solve(from_cells(initial_cells)).ok = FALSE
    /\ hint # {}
    /\ invalid_cells # <<>>

\* C13 (reset): reset changes no session field when the working grid equals
\* initial_cells or submitted is TRUE; otherwise it pushes the grid it found
\* on history, makes the working grid equal to initial_cells and empties
\* invalid_cells, hint, show_all and solved_cache, leaving the rest alone.
\* A reset right after a reset changes nothing.
C13_Reset ==
    [][cmd'.op = "reset" =>
          /\ IF gameboard = initial_cells \/ submitted
             THEN UNCHANGED session
             ELSE /\ history' = Append(history, gameboard)
                  /\ gameboard' = initial_cells
                  /\ invalid_cells' = <<>>
                  /\ hint' = {}
                  /\ ~show_all'
                  /\ solved_cache' = {}
                  /\ UNCHANGED <<selected_cell, initial_cells, changes,
                                 submitted>>
          /\ cmd.op = "reset" => UNCHANGED session]_vars

\* a reset has put the puzzle back over an edited grid, now on history
C13_Witness ==
    /\ cmd.op = "reset"
    /\ ~submitted
    /\ gameboard = initial_cells
    /\ changes # <<>>
    /\ history # <<>>
    /\ history[Len(history)] # initial_cells
    /\ \A p \in Cells : initial_cells[p[1]][p[2]] # 0 =>
          history[Len(history)][p[1]][p[2]] = initial_cells[p[1]][p[2]]

\* the selection is empty or on a cell that is fixed or holds val
Idle(val) ==
    \/ selected_cell = {}
    \/ \E ind \in selected_cell : \/ initial_cells[ind[2]][ind[1]] # 0
                                  \/ gameboard[ind[2]][ind[1]] = val

\* C14 (edits without effect): enter_digit(d) with no cell selected, on a
\* fixed cell or on a cell already holding d, and clear_cell with no cell
\* selected, on a fixed cell or on an empty cell, change no session field:
\* no Change is pushed and invalid_cells is as before.
C14_EditNoEffect ==
    [][/\ (cmd'.op = "enter_digit" /\ Idle(cmd'.key)) => UNCHANGED session
       /\ (cmd'.op = "clear_cell" /\ Idle(0)) => UNCHANGED session]_vars

\* a digit key has arrived on an editable cell that holds this digit and is
\* flagged
C14_Witness ==
    /\ cmd.op = "enter_digit"
    /\ cmd.pre = {}
    /\ ~submitted
    /\ invalid_cells # <<>>
    /\ \E ind \in selected_cell : /\ initial_cells[ind[2]][ind[1]] = 0
                                  /\ gameboard[ind[2]][ind[1]] = cmd.key

\* C15 (a click spends the hint): every left click on a board cell that
\* arrives while a hint is pending leaves hint empty, whether or not the
\* hinted value was written.
C15_ClickClearsHint ==
    [][(hint # {} /\ cmd'.op \in {"select", "confirm_hint"}) =>
          hint' = {}]_vars

\* C16 (the overlay shows the puzzle's answer): a present solved_cache is
\* the grid that solve gives on a copy of initial_cells, whatever the
\* working grid holds; it agrees with initial_cells on every fixed cell;
\* and the show-all command that finds show_all on turns it off and drops
\* the cache.
C16_ShowAll ==
    /\ [](\A c \in solved_cache :
            /\ show_all
            /\ solve(from_cells(initial_cells)).ok
            /\ c = solve(from_cells(initial_cells)).cells
            /\ \A p \in Cells :
                 initial_cells[p[1]][p[2]] # 0 =>
                    c[p[1]][p[2]] = initial_cells[p[1]][p[2]])
    /\ [][(cmd'.op = "toggle_show_all" /\ show_all) =>
             (~show_all' /\ solved_cache' = {})]_vars

\* a digit has been entered under the overlay that differs from the cached
\* answer of its cell
C16_Witness ==
    /\ cmd.op = "enter_digit"
    /\ cmd.pre # {}
    /\ show_all
    /\ \E c \in solved_cache : \E ind \in selected_cell :
          /\ gameboard[ind[2]][ind[1]] # 0
          /\ gameboard[ind[2]][ind[1]] # c[ind[2]][ind[1]]

\* the set of the elements of a sequence
Elems(s) == {s[i] : i \in DOMAIN s}

\* C17 (invalid_cells is derived state): while the session is not
\* submitted, invalid_cells holds exactly the positions of the editable
\* cells whose non-zero value fails is_valid_move on the working grid,
\* which is what recompute_invalid_cells gives.
C17_InvalidExact ==
    ~submitted =>
        Elems(invalid_cells) =
            Elems(recompute_invalid_cells(gameboard, initial_cells))

\* C18 (flag and cache in step): solved_cache is present exactly when
\* show_all is true and solve succeeds on initial_cells; so it is never
\* present while show_all is false.
C18_CacheInStep ==
    solved_cache # {} <=>
        (show_all /\ solve(from_cells(initial_cells)).ok)

\* show-all has just been turned on over a puzzle that has no solution, and
\* the cache stayed empty
C18_Witness ==
    /\ cmd.op = "toggle_show_all"
    /\ show_all
    /\ solved_cache = {}
    /\ ~solve(from_cells(initial_cells)).ok

\* C19 (a snapshot before every mutation): each enter_digit, clear_cell,
\* hint confirmation, reset and randomize that changes the working grid
\* appends the grid it found to history.
C19_SnapshotFirst ==
    [][(/\ cmd'.op \in {"enter_digit", "clear_cell", "confirm_hint",
                        "reset", "randomize"}
        /\ gameboard' # gameboard) =>
          history' = Append(history, gameboard)]_vars

\* the grid after writing the prev of every Change back, newest first
RECURSIVE Replay(_, _)
Replay(log, cells) ==
    IF log = <<>> THEN cells
    ELSE LET c == log[Len(log)]
         IN Replay(SubSeq(log, 1, Len(log) - 1),
                   set(cells, <<c.x, c.y>>, c.prev))

\* C20 (the changes log): each enter_digit, clear_cell or hint confirmation
\* that has an effect appends exactly one Change {x, y, prev} whose prev is
\* the value the cell held before the edit, and modifies the working grid at
\* column x, row y only; and in a session without reset and randomize,
\* writing the logged prev values back, newest first, turns the working
\* grid into initial_cells.
C20_ChangesLog ==
    /\ [][(/\ cmd'.op \in {"enter_digit", "clear_cell", "confirm_hint"}
           /\ session' # session) =>
             \E x \in Idx : \E y \in Idx :
                /\ changes' = Append(changes, [x |-> x, y |-> y,
                                               prev |-> gameboard[y][x]])
                /\ gameboard'[y][x] # gameboard[y][x]
                /\ gameboard' = set(gameboard, <<x, y>>, gameboard'[y][x])]_vars
    /\ [](Replay(changes, gameboard) = initial_cells)

\* a second edit has overwritten a digit the player had entered
C20_Witness ==
    /\ cmd.op = "enter_digit"
    /\ Len(changes) = 2
    /\ changes[2].prev # 0
    /\ \E ind \in selected_cell :
          /\ changes[2].x = ind[1]
          /\ changes[2].y = ind[2]
          /\ gameboard[ind[2]][ind[1]] # changes[2].prev

\* the editable empty cells <<row, col>> with at least one legal digit
Candidates ==
    {p \in Cells : /\ initial_cells[p[1]][p[2]] = 0
                   /\ gameboard[p[1]][p[2]] = 0
                   /\ Cnt(gameboard, p[1], p[2]) > 0}

\* the first candidate in row-major order among those with the fewest
\* legal digits
Easiest ==
    CHOOSE p \in Candidates :
       \A q \in Candidates :
          \/ Cnt(gameboard, p[1], p[2]) < Cnt(gameboard, q[1], q[2])
          \/ /\ Cnt(gameboard, p[1], p[2]) = Cnt(gameboard, q[1], q[2])
             /\ p[1] * SIZE + p[2] <= q[1] * SIZE + q[2]

\* C22 (the hint): show_hint in a session that is not submitted clears a
\* pending hint and does nothing else; with no hint pending it leaves hint
\* empty when no editable empty cell has a legal digit or when solve fails
\* on a copy of the working grid, and otherwise sets the hint to the first
\* cell in row-major order among the editable empty cells with the smallest
\* positive count of legal digits, with that cell's value in the solved
\* copy.
C22_Hint ==
    [][(cmd'.op = "show_hint" /\ ~submitted) =>
          /\ UNCHANGED <<gameboard, selected_cell, initial_cells,
                         invalid_cells, history, changes, show_all,
                         solved_cache, submitted>>
          /\ hint # {} => hint' = {}
          /\ (hint = {} /\ Candidates = {}) => hint' = {}
          /\ (hint = {} /\ Candidates # {}) =>
                IF solve(gameboard).ok
                THEN hint' = {[pos |-> <<Easiest[2], Easiest[1]>>,
                               val |-> solve(gameboard).cells[Easiest[1]][Easiest[2]]]}
                ELSE hint' = {}]_vars

\* a hint has been given for a cell with fewer legal digits than another
\* editable empty cell
C22_Witness ==
    /\ cmd.op = "show_hint"
    /\ \E h \in hint : \E p \in Cells :
          /\ initial_cells[p[1]][p[2]] = 0
          /\ gameboard[p[1]][p[2]] = 0
          /\ gameboard[h.pos[2]][h.pos[1]] = 0
          /\ Cnt(gameboard, p[1], p[2]) > Cnt(gameboard, h.pos[2], h.pos[1])

\* C23 (speculative solves work on copies): show_hint, toggle_show_all and
\* submit leave the working grid and initial_cells as they were, whether
\* the solve they run succeeds or fails.
C23_PrivateCopies ==
    [][cmd'.op \in {"show_hint", "toggle_show_all", "submit"} =>
          UNCHANGED <<gameboard, initial_cells>>]_vars

\* submit has graded a grid that still has an empty cell, its solve having
\* succeeded, and the overlay holds the solved copy
C23_Witness ==
    /\ cmd.op = "submit"
    /\ ~cmd.sub
    /\ submitted
    /\ show_all
    /\ \E c \in solved_cache : c # gameboard
    /\ \E p \in Cells : gameboard[p[1]][p[2]] = 0

\* C24 (the selection is cleared): after every reset that has an effect and
\* after every randomize no cell is selected.
C24_SelectionCleared ==
    [][(\/ cmd'.op = "randomize"
        \/ cmd'.op = "reset" /\ session' # session) =>
          selected_cell' = {}]_vars

\* C27 (no hint in a submitted session): submitted implies that no hint is
\* pending; so a left click on a board cell in a submitted session writes
\* nothing to the working grid, pushes no Change and leaves invalid_cells
\* alone.
C27_NoHintOnceSubmitted ==
    /\ [](submitted => hint = {})
    /\ [][(submitted /\ cmd'.op \in {"select", "confirm_hint"}) =>
             /\ cmd'.op = "select"
             /\ UNCHANGED <<gameboard, changes, invalid_cells>>]_vars

\* an editable empty cell has been clicked in a submitted session
C27_Witness ==
    /\ submitted
    /\ cmd.op = "select"
    /\ cmd.sub
    /\ \E ind \in selected_cell : /\ initial_cells[ind[2]][ind[1]] = 0
                                  /\ gameboard[ind[2]][ind[1]] = 0

\* C29 (a hint is a digit of the puzzle's answer): a pending hint lies on
\* an editable cell, its value is in 1..9, and its value is the one that
\* solve gives at that position on a copy of initial_cells.
C29_HintFromAnswer ==
    \A h \in hint :
       /\ initial_cells[h.pos[2]][h.pos[1]] = 0
       /\ h.val \in 1 .. 9
       /\ solve(from_cells(initial_cells)).ok
       /\ h.val = solve(from_cells(initial_cells)).cells[h.pos[2]][h.pos[1]]

(***************************************************************************)
(* The puzzle engine on its own: a Gameboard held by a fresh controller,   *)
(* on which one Gameboard function is called.  initial_cells keeps the     *)
(* grid the board was built from; cmd records the call, its arguments and  *)
(* its return value.                                                       *)
(***************************************************************************)
\* cells of the grid set to 0 on the positions Z
Zeroed(g, Z) ==
    [r \in Idx |-> [c \in Idx |-> IF <<r, c>> \in Z THEN 0 ELSE g[r][c]]]

\* positions the solver inputs are zeroed on: subsets of the first
\* MaxRegion positions of a position shuffle
MaxRegion == 5

Region == {ShufflePositions(0)[i] : i \in 1 .. MaxRegion}

\* hole counts of the generated puzzles given to the solver
SolveHoles == {20, DEFAULT_HOLES, SIZE * SIZE}

\* A puzzle with the cells of Block dug out and one entry of the player
\* at p, whatever its value.
Entered(s, p, v) ==
    [Zeroed(FullSolution[s], Block) EXCEPT ![p[1]][p[2]] = v]

SolveInputs ==
    {Zeroed(FullSolution[s], Z) : s \in Seeds, Z \in SUBSET Region}
    \cup {generate_random(h, s) : h \in SolveHoles, s \in Seeds}
    \cup {Entered(s, p, v) : s \in Seeds, p \in Block, v \in Digit}

SolveInit ==
    /\ \E g \in SolveInputs : Controller(from_cells(g))
    /\ cmd = Cmd("new")

\* gameboard.solve()
SolveCall ==
    /\ cmd.op = "new"
    /\ gameboard' = solve(gameboard).cells
    /\ cmd' = [op |-> "solve", ret |-> solve(gameboard).ok]
    /\ UNCHANGED <<selected_cell, initial_cells, invalid_cells, history,
                   changes, hint, show_all, solved_cache, submitted>>

SolveNext == SolveCall

SolveSpec == SolveInit /\ [][SolveNext]_vars

\* the grid of the scenario: row `row` holds 1..8 and a blank, all else 0
RowGrid(row) ==
    [r \in Idx |-> [c \in Idx |-> IF r = row /\ c < 8 THEN c + 1 ELSE 0]]

ValidInputs ==
    {RowGrid(row) : row \in Idx}
    \cup {FullSolution[s] : s \in Seeds}
    \cup {Zeroed(FullSolution[s], Block) : s \in Seeds}
    \cup {Entered(0, p, 1) : p \in Block}

ValidInit ==
    /\ \E g \in ValidInputs : Controller(from_cells(g))
    /\ cmd = Cmd("new")

\* gameboard.is_valid_move(row, col, num)
ValidCall(row, col, num) ==
    /\ cmd.op = "new"
    /\ cmd' = [op |-> "is_valid_move", row |-> row, col |-> col, num |-> num,
               ret |-> is_valid_move(gameboard, row, col, num)]
    /\ UNCHANGED session

ValidNext == \E row \in Idx : \E col \in Idx : \E num \in Digit :
                ValidCall(row, col, num)

ValidSpec == ValidInit /\ [][ValidNext]_vars

\* hole counts given to generate_random: all of 0..81 and beyond
MaxHolesArg == 83

GenInit ==
    /\ Controller(new)
    /\ cmd = Cmd("new")

\* Gameboard::generate_random(holes), drawing under seed s
GenCall(holes, s) ==
    /\ cmd.op = "new"
    /\ gameboard' = generate_random(holes, s)
    /\ cmd' = [op |-> "generate_random", holes |-> holes, seed |-> s]
    /\ UNCHANGED <<selected_cell, initial_cells, invalid_cells, history,
                   changes, hint, show_all, solved_cache, submitted>>

GenNext == \E holes \in 0 .. MaxHolesArg : \E s \in Seeds : GenCall(holes, s)

GenSpec == GenInit /\ [][GenNext]_vars

\* Gameboard::generate_full_solution() step by step: `let mut board =
\* [[0u8; SIZE]; SIZE]; Self::fill_board(&mut board)` under seed s, the
\* board in gameboard and the rest of the run in cmd.
FillStart(s) ==
    /\ cmd.op = "new"
    /\ gameboard' = new
    /\ cmd' = [op |-> "fill_board", seed |-> s, mode |-> "call", ok |-> FALSE,
               stack |-> <<>>, n |-> 0]
    /\ UNCHANGED <<selected_cell, initial_cells, invalid_cells, history,
                   changes, hint, show_all, solved_cache, submitted>>

\* the run of fill_board held in gameboard and cmd
FillState == [mode |-> cmd.mode, ok |-> cmd.ok, board |-> gameboard,
              stack |-> cmd.stack, n |-> cmd.n]

FillRun ==
    /\ cmd.op = "fill_board"
    /\ cmd.mode # "done"
    /\ gameboard' = FillStep(FillState, cmd.seed).board
    /\ cmd' = [op |-> "fill_board", seed |-> cmd.seed,
               mode |-> FillStep(FillState, cmd.seed).mode,
               ok |-> FillStep(FillState, cmd.seed).ok,
               stack |-> FillStep(FillState, cmd.seed).stack,
               n |-> FillStep(FillState, cmd.seed).n]
    /\ UNCHANGED <<selected_cell, initial_cells, invalid_cells, history,
                   changes, hint, show_all, solved_cache, submitted>>

FillNext ==
    \/ \E s \in Seeds : FillStart(s)
    \/ FillRun

\* A call that can take a step takes it: the run is not suspended.
FillSpec == GenInit /\ [][FillNext]_vars /\ WF_vars(FillNext)

(***************************************************************************)
(* Properties of the puzzle engine.                                        *)
(***************************************************************************)
\* every row, column and 3x3 box of g holds each of 1..9 (its 9 cells then
\* hold each exactly once)
ValidFull(g) ==
    \A i \in Idx :
       /\ {g[i][c] : c \in Idx} = Digit
       /\ {g[r][i] : r \in Idx} = Digit
       /\ {g[BoxStart(i) + (k \div 3)][(i % 3) * 3 + (k % 3)] : k \in Idx} = Digit

\* the cells sharing a row, a column or a box with (row, col), without it
Peers(row, col) ==
    {p \in Cells : /\ p # <<row, col>>
                   /\ \/ p[1] = row
                      \/ p[2] = col
                      \/ /\ p[1] \div 3 = row \div 3
                         /\ p[2] \div 3 = col \div 3}

Empties(g) == {p \in Cells : g[p[1]][p[2]] = 0}

\* g keeps every non-zero cell of g0
Keeps(g, g0) ==
    \A p \in Cells : g0[p[1]][p[2]] # 0 => g[p[1]][p[2]] = g0[p[1]][p[2]]

\* g is a full valid grid with some cells zeroed
FromFull(g) ==
    \E s \in Seeds : /\ ValidFull(FullSolution[s])
                     /\ g = Zeroed(FullSolution[s], Empties(g))

\* all valid completions of g, by filling one empty cell after another with
\* the digits none of its peers holds
RECURSIVE Completions(_)
Completions(g) ==
    IF Empties(g) = {} THEN (IF ValidFull(g) THEN {g} ELSE {})
    ELSE LET p == CHOOSE q \in Empties(g) : TRUE
             cand == {v \in Digit :
                        \A q \in Peers(p[1], p[2]) : g[q[1]][q[2]] # v}
         IN UNION {Completions([g EXCEPT ![p[1]][p[2]] = v]) : v \in cand}

\* C4: whenever solve(g) returns true, whatever the input grid g, every
\* row, column and box of the resulting grid holds each of 1..9 exactly
\* once and every non-zero cell of g is unchanged.
C4_SolverSound ==
    (cmd.op = "solve" /\ cmd.ret)
       => /\ ValidFull(gameboard)
          /\ Keeps(gameboard, initial_cells)

\* C5: on every grid obtained from a full valid grid by zeroing a subset of
\* its cells solve returns true, and when that grid has exactly one valid
\* completion the grid after solve is that completion (the completions are
\* enumerated for the grids with at most MaxRegion empty cells).
C5_SolverComplete ==
    (cmd.op = "solve" /\ FromFull(initial_cells))
       => /\ cmd.ret
          /\ (/\ Cardinality(Empties(initial_cells)) <= MaxRegion
              /\ Cardinality(Completions(initial_cells)) = 1)
                => Completions(initial_cells) = {gameboard}

\* solve has run on a zeroed full grid with a single completion, some of it
\* to be found
C5_Witness ==
    /\ cmd.op = "solve"
    /\ FromFull(initial_cells)
    /\ Cardinality(Empties(initial_cells)) \in 2 .. MaxRegion
    /\ Cardinality(Completions(initial_cells)) = 1
    /\ gameboard # initial_cells

\* C6: is_valid_move(row, col, num) is true iff num occurs in none of the
\* other cells of the row, the column and the box of (row, col); what the
\* cell (row, col) itself holds does not matter; and on a row holding
\* 1..8 and a blank, 9 is valid and 1 is not at the blank.
C6_ValidMove ==
    cmd.op = "is_valid_move"
       => /\ cmd.ret = (\A p \in Peers(cmd.row, cmd.col) :
                           gameboard[p[1]][p[2]] # cmd.num)
          /\ \A v \in 0 .. 9 :
                is_valid_move(set(gameboard, <<cmd.col, cmd.row>>, v),
                              cmd.row, cmd.col, cmd.num) = cmd.ret
          /\ (gameboard = RowGrid(cmd.row) /\ cmd.col = 8 /\ cmd.num = 9)
                => cmd.ret
          /\ (gameboard = RowGrid(cmd.row) /\ cmd.col = 8 /\ cmd.num = 1)
                => ~cmd.ret

\* is_valid_move has accepted a digit for a cell that already holds it
C6_Witness ==
    /\ cmd.op = "is_valid_move"
    /\ gameboard[cmd.row][cmd.col] = cmd.num
    /\ cmd.ret

\* C7: under each of the shuffle sequences Seeds names, a run of
\* generate_full_solution() that is not suspended terminates, fill_board
\* returning true, with a grid without a zero in which every row, column
\* and box holds each of 1..9 exactly once.
C7_FullSolution ==
    <>[](/\ cmd.op = "fill_board"
         /\ cmd.mode = "done"
         /\ cmd.ok
         /\ ValidFull(gameboard)
         /\ gameboard = FullSolution[cmd.seed])

\* fill_board has returned after taking back some of its placements
C7_Witness ==
    /\ cmd.op = "fill_board"
    /\ cmd.mode = "done"
    /\ cmd.ok
    /\ cmd.n > SIZE * SIZE

\* C8: for h in 0..81 generate_random(h) returns a grid with exactly 81-h
\* non-zero cells, all of them those of one valid full solution;
\* generate_random(81) is all zero and generate_random(0) has no blank.
C8_GenerateRandom ==
    (cmd.op = "generate_random" /\ cmd.holes <= SIZE * SIZE)
       => /\ Cardinality(Cells \ Empties(gameboard)) = SIZE * SIZE - cmd.holes
          /\ \E s \in Seeds : /\ ValidFull(FullSolution[s])
                              /\ Keeps(FullSolution[s], gameboard)
          /\ cmd.holes = SIZE * SIZE => gameboard = new
          /\ cmd.holes = 0 => Empties(gameboard) = {}

\* generate_random has dug the default number of holes
C8_Witness ==
    /\ cmd.op = "generate_random"
    /\ cmd.holes = DEFAULT_HOLES
    /\ Cardinality(Empties(gameboard)) = DEFAULT_HOLES


(***************************************************************************)
(* The two bounded stacks on their own: push_history and push_change       *)
(* called on the stacks of a long session.                                 *)
(***************************************************************************)
\* the puzzle of the long session
LongPuzzle == generate_random(4, 0)

\* the working grid of round i: the player has typed one digit into [4,2]
\* and one into [5,2]
RoundGrid(i) ==
    set(set(LongPuzzle, <<4, 2>>, (i % 9) + 1), <<5, 2>>, ((i \div 9) % 9) + 1)

\* The session after k rounds of: select [4,2], type a digit, select [5,2],
\* type a digit, press Reset.  Each round logs two Changes with prev 0 and
\* one snapshot; up to HistoryCap rounds nothing has been dropped.
AfterRounds(k) ==
    /\ gameboard = LongPuzzle
    /\ initial_cells = LongPuzzle
    /\ selected_cell = IF k = 0 THEN {} ELSE {<<5, 2>>}
    /\ invalid_cells = <<>>
    /\ history = [i \in 1 .. k |-> RoundGrid(i - 1)]
    /\ changes = [i \in 1 .. 2 * k |->
                    [x |-> IF i % 2 = 1 THEN 4 ELSE 5, y |-> 2, prev |-> 0]]
    /\ hint = {}
    /\ show_all = FALSE
    /\ solved_cache = {}
    /\ submitted = FALSE

\* pushes made on top of the long session
MaxPush == 2

PushInit ==
    /\ \E k \in 0 .. HistoryCap : AfterRounds(k)
    /\ cmd = [op |-> "rounds", n |-> 0, full |-> FALSE]

\* self.push_history(), as reset (332) and randomize (342) call it
PushHistoryCall ==
    /\ cmd.n < MaxPush
    /\ history' = push_history(history, gameboard)
    /\ cmd' = [op |-> "push_history", n |-> cmd.n + 1,
               full |-> Len(history) >= HistoryCap]
    /\ UNCHANGED <<gameboard, selected_cell, initial_cells, invalid_cells,
                   changes, hint, show_all, solved_cache, submitted>>

\* self.push_change(x, y, prev), as the edits (143, 230, 250) call it
PushChangeCall(x, y, prev) ==
    /\ cmd.n < MaxPush
    /\ changes' = push_change(changes, x, y, prev)
    /\ cmd' = [op |-> "push_change", n |-> cmd.n + 1,
               full |-> Len(changes) >= ChangesCap]
    /\ UNCHANGED <<gameboard, selected_cell, initial_cells, invalid_cells,
                   history, hint, show_all, solved_cache, submitted>>

PushNext ==
    \/ PushHistoryCall
    \/ \E p \in Window : \E prev \in {1, 8} : PushChangeCall(p[1], p[2], prev)

PushSpec == PushInit /\ [][PushNext]_vars

\* now is old with entry e pushed under capacity cap: at most cap entries,
\* e last, and before it the entries of old in their order, the oldest
\* left out if old was full
Pushed(old, now, e, cap) ==
    LET drop == IF Len(old) >= cap THEN 1 ELSE 0 IN
    /\ Len(now) = Len(old) + 1 - drop
    /\ Len(now) <= cap
    /\ now[Len(now)] = e
    /\ \A i \in 1 .. Len(now) - 1 : now[i] = old[i + drop]

\* C21 (bounded stacks): history never holds more than 100 snapshots and
\* changes never more than 200 deltas; a push onto a full stack drops the
\* oldest entry and keeps the others in their order with the new entry
\* last.
C21_BoundedStacks ==
    /\ [](Len(history) <= 100 /\ Len(changes) <= 200)
    /\ [][/\ cmd'.op = "push_history" =>
               Pushed(history, history', gameboard, 100)
          /\ cmd'.op = "push_change" =>
               /\ Len(changes') > 0
               /\ Pushed(changes, changes', changes'[Len(changes')], 200)]_vars

\* a snapshot has been pushed onto a full history
C21_Witness ==
    /\ cmd.op = "push_history"
    /\ cmd.full
    /\ Len(history) = HistoryCap
    /\ history[Len(history)] = gameboard
    /\ history[1] = RoundGrid(1)


\* C25 (hole counts above 81): generate_random can be called with every
\* hole count, and with a count above 81 it returns what it returns for
\* 81, the all-zero grid.
C25_ManyHoles ==
    /\ [](cmd.op = "new" =>
             \A holes \in 0 .. MaxHolesArg : \A s \in Seeds :
                ENABLED GenCall(holes, s))
    /\ []((cmd.op = "generate_random" /\ cmd.holes > SIZE * SIZE) =>
             /\ gameboard = generate_random(SIZE * SIZE, cmd.seed)
             /\ gameboard = new)

\* generate_random has returned from a call with more than 81 holes
C25_Witness ==
    /\ cmd.op = "generate_random"
    /\ cmd.holes = SIZE * SIZE + 2
    /\ gameboard = new


\* C26 (a failed solve leaves no trace): whenever solve returns false, the
\* grid after the call is the grid before the call.
C26_FailedSolve ==
    (cmd.op = "solve" /\ ~cmd.ret) => gameboard = initial_cells

\* solve has returned false although the first empty cell had a legal
\* digit, which the search wrote and took back
C26_Witness ==
    /\ cmd.op = "solve"
    /\ ~cmd.ret
    /\ gameboard = initial_cells
    /\ \E p \in Empties(initial_cells) :
          /\ \A q \in Empties(initial_cells) :
                p[1] * SIZE + p[2] <= q[1] * SIZE + q[2]
          /\ Cnt(initial_cells, p[1], p[2]) > 0


(***************************************************************************)
(* The end of a game: sessions picked up when the player has typed a digit *)
(* into every hole of the puzzle.                                          *)
(***************************************************************************)
\* the holes of a puzzle as [x, y], in the order of the scan
Holes(init) ==
    LET Hole(p) == init[p[2]][p[1]] = 0 IN SelectSeq(ScanXY, Hole)

\* The session after the player has selected each hole of the puzzle in
\* scan order and typed the digit that `filled` has there.  filled being a
\* valid full grid, none of the digits failed is_valid_move when it was
\* typed, so invalid_cells is empty; each key pushed one Change with prev 0.
Filled(init, filled) ==
    /\ gameboard = filled
    /\ initial_cells = init
    /\ selected_cell = {Holes(init)[Len(Holes(init))]}
    /\ invalid_cells = <<>>
    /\ history = <<>>
    /\ changes = [i \in 1 .. Len(Holes(init)) |->
                    [x |-> Holes(init)[i][1], y |-> Holes(init)[i][2],
                     prev |-> 0]]
    /\ hint = {}
    /\ show_all = FALSE
    /\ solved_cache = {}
    /\ submitted = FALSE

\* the player has typed the grid the puzzle was dug from, or the grid solve
\* finds for the puzzle
GradeInit ==
    /\ \E holes \in SessionHoles : \E s \in SessionSeeds :
          \E filled \in {FullSolution[s],
                         solve(from_cells(generate_random(holes, s))).cells} :
             Filled(generate_random(holes, s), filled)
    /\ cmd = Cmd("filled")

\* what is left to do on a filled grid: look around and submit
GradeNext ==
    \/ Click
    \/ KeyMove
    \/ show_hint
    \/ toggle_show_all
    \/ submit

GradeSpec == GradeInit /\ [][GradeNext]_vars

\* C28 (a correct grid is graded correct): when submit grades a working
\* grid that is completely filled, agrees with initial_cells on every fixed
\* cell and has 1..9 once in every row, column and box, invalid_cells is
\* empty afterwards, also for a puzzle with more than one solution.
C28_CorrectGridGraded ==
    (/\ cmd.op = "submit"
     /\ submitted
     /\ ValidFull(gameboard)
     /\ Keeps(gameboard, initial_cells)) => invalid_cells = <<>>

=============================================================================
